---- MODULE Spec2Model ----
EXTENDS Integers, Sequences, FiniteSets, TLC

(***************************************************************************)
(* Model of crates/turbopack/src/lib.rs: the emission pipeline (emit,      *)
(* emit_with_completion), the back-reference analyzer                      *)
(* (compute_back_references, top_references), the module rule engine and   *)
(* factory (module) and the asset context (ModuleAssetContext).            *)
(*                                                                         *)
(* Every #[turbo_tasks::function] is a memoized task: calling it creates   *)
(* the task the first time it is called with given arguments and schedules *)
(* it; a later call with the same arguments returns the same task.  A task *)
(* is "none" (never called), "scheduled", "awaiting" (suspended at an      *)
(* .await) or "done".                                                      *)
(***************************************************************************)

\* Bounds of the model.
NumAssets == 4          \* assets of the reference graph of the recursive emission
MaxEdges == 4           \* references of that graph
NumScopedAssets == 2    \* assets of the scoped emission
MaxInner == 2           \* internal nodes of an aggregation tree
NumRefAssets == 3       \* assets of the back-reference analysis
NumRefTargets == 2      \* assets the analyzed assets may reference
MaxLists == 5           \* aggregation nodes whose back references are computed
MaxEntries == 6         \* entries of the map handed to top_references
MaxRules == 2           \* rules of a module-options configuration
MaxResolves == 2        \* repeated resolve_asset calls

\* Program constants.
N == 5                  \* top_references: const N: usize = 5

VARIABLES
    \* emission pipeline
    refs,         \* all_referenced_assets: asset -> set of directly referenced assets
    root,         \* the asset handed to emit / emit_with_completion
    mode,         \* "emit" or "emit_with_completion"
    output_dir,   \* the output directory (a path), "none" for emit
    children,     \* aggregation tree: internal node -> set of child nodes
    top,          \* aggregate(root): the top node of the aggregation tree
    entrySt,      \* task emit(root) or emit_with_completion(root, output_dir)
    eaggSt,       \* task emit_assets_aggregated(root, output_dir)
    recSt,        \* tasks emit_assets_recursive(asset)
    emitAssetSt,  \* tasks emit_asset(asset)
    aggSt,        \* tasks emit_aggregated_assets(node, output_dir)
    aggVisited,   \* per such task: the children whose completion it has awaited
    aggCur,       \* per such task: the child it is awaiting (0: none)
    intoDirSt,    \* tasks emit_asset_into_dir(asset, output_dir)
    completion,   \* per asset: the completion emit_asset_into_dir returned
    writes,       \* per asset: how many times path.write(content) was issued
    observed,     \* the caller awaiting the entry task has seen its result
    \* back-reference analyzer
    assetRefs,    \* all_referenced_assets as asked so far: asset -> set of assets
    lists,        \* memoized compute_back_references results, one per node
    list,         \* top_references: the ReferencesList handed in (referenced_by)
    remaining,    \* top_references: keys the outer loop has not yet iterated
    topVec,       \* top_references: the vector top (keys of list, in order)
    topResult,    \* top_references: <<>> while running, then <<the returned referenced_by>>
    \* module factory and asset context
    ctx,          \* the ModuleAssetContext the operation is called on (self)
    op,           \* the operation called
    arg,          \* its argument: an asset, a path, an environment, a name, a request
    pc,           \* how far the operation has run
    effects,      \* module: the effects map merged from the matching rules
    procSource,   \* process: the asset after transition.process_source
    procEnv,      \* process: the environment after transition.process_environment
    moduleArgs,   \* what module() was called with
    moduleOut,    \* what module() returned
    result,       \* what the operation returned
    result2,      \* process: what processing the result once more returned
    resolveBase,  \* resolve_asset: the result of turbopack_core::resolve::resolve
    resolveResults \* resolve_asset: the results returned call after call

emissionVars ==
    <<refs, root, mode, output_dir, children, top, entrySt, eaggSt, recSt,
      emitAssetSt, aggSt, aggVisited, aggCur, intoDirSt, completion, writes,
      observed>>

analyzerVars == <<assetRefs, lists, list, remaining, topVec, topResult>>

contextVars ==
    <<ctx, op, arg, pc, effects, procSource, procEnv, moduleArgs, moduleOut,
      result, result2, resolveBase, resolveResults>>

vars == <<emissionVars, analyzerVars, contextVars>>

None == [kind |-> "None"]

ContextUnused ==
    /\ ctx = None /\ op = "none" /\ arg = None /\ pc = "none" /\ effects = <<>>
    /\ procSource = None /\ procEnv = None /\ moduleArgs = None
    /\ moduleOut = None /\ result = None /\ result2 = None
    /\ resolveBase = None /\ resolveResults = <<>>

EmissionUnused ==
    /\ refs = <<>> /\ root = 0 /\ mode = "none" /\ output_dir = "none"
    /\ children = <<>> /\ top = 0 /\ entrySt = "none" /\ eaggSt = "none"
    /\ recSt = <<>> /\ emitAssetSt = <<>> /\ aggSt = <<>> /\ aggVisited = <<>>
    /\ aggCur = <<>> /\ intoDirSt = <<>> /\ completion = <<>> /\ writes = <<>>
    /\ observed = FALSE

BackRefsUnused == assetRefs = <<>> /\ lists = {}

TopUnused == list = <<>> /\ remaining = {} /\ topVec = <<>> /\ topResult = <<>>

AnalyzerUnused == BackRefsUnused /\ TopUnused

notEmissionVars == <<analyzerVars, contextVars>>

notAnalyzerVars == <<emissionVars, contextVars>>

(***************************************************************************)
(* Reference graphs.                                                       *)
(***************************************************************************)

RECURSIVE EdgeSets(_, _)
EdgeSets(A, k) ==
    IF k = 0 THEN {{}}
    ELSE LET prev == EdgeSets(A, k - 1)
         IN  prev \cup {s \cup {e} : s \in prev, e \in A \X A}

GraphOf(A, es) == [a \in A |-> {b \in A : <<a, b>> \in es}]

RECURSIVE ReachFrom(_, _, _)
ReachFrom(g, seen, k) ==
    IF k = 0 THEN seen
    ELSE ReachFrom(g, seen \cup UNION {g[a] : a \in seen}, k - 1)

\* The assets reachable from r through direct and transitive references.
Reachable(g, r) == ReachFrom(g, {r}, Cardinality(DOMAIN g))

\* The graphs over A with at most k references; an asset that r does not
\* reach has no references (nothing ever asks for them).
Graphs(A, k, r) ==
    {g \in {GraphOf(A, es) : es \in EdgeSets(A, k)} :
        \A a \in A : a \notin Reachable(g, r) => g[a] = {}}

(***************************************************************************)
(* File system paths: sequences of segments.                               *)
(***************************************************************************)

AssetPath(a) ==
    CASE a % 3 = 1 -> <<"out", ToString(a) \o ".js">>
      [] a % 3 = 2 -> <<"tmp", ToString(a) \o ".js">>
      [] OTHER     -> <<"out", "sub", ToString(a) \o ".js">>

OutputDirs == {<<"out">>, <<"tmp">>, <<"out", "sub">>, <<>>}

\* FileSystemPath::is_inside: dir is a proper ancestor of path.
is_inside(path, dir) ==
    /\ Len(dir) < Len(path)
    /\ SubSeq(path, 1, Len(dir)) = dir

(***************************************************************************)
(* Aggregation trees.  Node a in 1..n is the leaf of asset a; the nodes    *)
(* above n are internal and list their children, each a lower node.        *)
(***************************************************************************)

ScopedAssets == 1..NumScopedAssets
InnerIds == (NumScopedAssets + 1)..(NumScopedAssets + MaxInner)
NodeIds == ScopedAssets \cup InnerIds

IsLeaf(n) == n \in ScopedAssets

\* AggregatedGraphVc::content: Asset(a) for a leaf, Children(set) otherwise.
content(ch, n) ==
    IF IsLeaf(n) THEN [kind |-> "Asset", asset |-> n]
    ELSE [kind |-> "Children", children |-> ch[n]]

RECURSIVE NodesUnder(_, _, _)
NodesUnder(ch, seen, k) ==
    IF k = 0 THEN seen
    ELSE NodesUnder(ch, seen \cup UNION {ch[n] : n \in seen \cap InnerIds}, k - 1)

LeavesOf(ch, n) == NodesUnder(ch, {n}, MaxInner + 1) \cap ScopedAssets

\* The trees with k internal nodes: every internal node is non-empty, lists
\* lower nodes, and lies under the top node.
TreesOf(k) ==
    IF k = 0 THEN {[ch |-> [i \in InnerIds |-> {}], top |-> a] : a \in ScopedAssets}
    ELSE LET t == NumScopedAssets + k
         IN  {[ch |-> c, top |-> t] :
                c \in {c \in [InnerIds -> SUBSET NodeIds] :
                         /\ \A i \in InnerIds :
                               IF i <= t
                               THEN c[i] # {} /\ \A j \in c[i] : j < i
                               ELSE c[i] = {}
                         /\ \A i \in InnerIds :
                               i <= t => i \in NodesUnder(c, {t}, MaxInner + 1)}}

Trees == UNION {TreesOf(k) : k \in 0..MaxInner}

\* aggregate(root): some tree whose leaves are the assets root reaches.
aggregate(g, r) == {t \in Trees : LeavesOf(t.ch, t.top) = Reachable(g, r)}

StarGraph(r, L) == [a \in ScopedAssets |-> IF a = r THEN L \ {r} ELSE {}]

(***************************************************************************)
(* The task substrate: a call creates and schedules the task once.         *)
(***************************************************************************)

Call(st, a) == IF st[a] = "none" THEN [st EXCEPT ![a] = "scheduled"] ELSE st

CallAll(st, S) ==
    [a \in DOMAIN st |-> IF a \in S /\ st[a] = "none" THEN "scheduled" ELSE st[a]]

NoTasks(A) == [a \in A |-> "none"]

(***************************************************************************)
(* Initial states.                                                         *)
(***************************************************************************)

InitTasks(A) ==
    /\ entrySt = "scheduled"
    /\ eaggSt = "none"
    /\ recSt = NoTasks(A)
    /\ emitAssetSt = NoTasks(A)
    /\ intoDirSt = NoTasks(A)
    /\ completion = [a \in A |-> "none"]
    /\ writes = [a \in A |-> 0]
    /\ aggSt = NoTasks(NodeIds)
    /\ aggVisited = [n \in NodeIds |-> {}]
    /\ aggCur = [n \in NodeIds |-> 0]
    /\ observed = FALSE

NoTree == [ch |-> [i \in InnerIds |-> {}], top |-> 0]

\* emit(root) over any reference graph.
InitRecursive ==
    /\ root = 1
    /\ refs \in Graphs(1..NumAssets, MaxEdges, root)
    /\ mode = "emit"
    /\ output_dir = "none"
    /\ children = NoTree.ch
    /\ top = NoTree.top
    /\ InitTasks(1..NumAssets)
    /\ AnalyzerUnused
    /\ ContextUnused

\* emit(root), or emit_with_completion(root, output_dir) over an aggregation
\* tree of the graph.
InitEmission ==
    /\ root \in ScopedAssets
    /\ mode \in {"emit", "emit_with_completion"}
    /\ IF mode = "emit"
       THEN /\ refs \in Graphs(ScopedAssets, NumScopedAssets * NumScopedAssets, root)
            /\ output_dir = "none"
            /\ children = NoTree.ch
            /\ top = NoTree.top
       ELSE /\ output_dir \in OutputDirs
            /\ \E t \in Trees :
                  /\ root \in LeavesOf(t.ch, t.top)
                  /\ refs = StarGraph(root, LeavesOf(t.ch, t.top))
                  /\ t \in aggregate(refs, root)
                  /\ children = t.ch
                  /\ top = t.top
    /\ InitTasks(ScopedAssets)
    /\ AnalyzerUnused
    /\ ContextUnused

(***************************************************************************)
(* Recursive emission.                                                     *)
(***************************************************************************)

\* emit: calls emit_assets_recursive(asset) and returns without awaiting it.
emit ==
    /\ mode = "emit"
    /\ entrySt = "scheduled"
    /\ entrySt' = "done"
    /\ recSt' = Call(recSt, root)
    /\ UNCHANGED notEmissionVars
    /\ UNCHANGED <<refs, root, mode, output_dir, children, top, eaggSt,
                   emitAssetSt, aggSt, aggVisited, aggCur, intoDirSt,
                   completion, writes, observed>>

\* emit_assets_recursive up to its await: all_referenced_assets(asset) is
\* called, emit_asset(asset) is called, the set is awaited.
emit_assets_recursive_start_NoEmit(a) ==
    /\ recSt[a] = "scheduled"
    /\ recSt' = [recSt EXCEPT ![a] = "awaiting"]
    /\ UNCHANGED notEmissionVars
    /\ UNCHANGED <<refs, root, mode, output_dir, children, top, entrySt,
                   eaggSt, emitAssetSt, aggSt, aggVisited, aggCur, intoDirSt,
                   completion, writes, observed>>

emit_assets_recursive_start(a) ==
    /\ recSt[a] = "scheduled"
    /\ emitAssetSt' = Call(emitAssetSt, a)
    /\ recSt' = [recSt EXCEPT ![a] = "awaiting"]
    /\ UNCHANGED notEmissionVars
    /\ UNCHANGED <<refs, root, mode, output_dir, children, top, entrySt,
                   eaggSt, aggSt, aggVisited, aggCur, intoDirSt, completion,
                   writes, observed>>

\* emit_assets_recursive after its await: one call per referenced asset,
\* none awaited.
emit_assets_recursive_spawn(a) ==
    /\ recSt[a] = "awaiting"
    /\ recSt' = CallAll([recSt EXCEPT ![a] = "done"], refs[a])
    /\ UNCHANGED notEmissionVars
    /\ UNCHANGED <<refs, root, mode, output_dir, children, top, entrySt,
                   eaggSt, emitAssetSt, aggSt, aggVisited, aggCur, intoDirSt,
                   completion, writes, observed>>

\* emit_asset: asset.path().write(asset.content()).
emit_asset(a) ==
    /\ emitAssetSt[a] = "scheduled"
    /\ emitAssetSt' = [emitAssetSt EXCEPT ![a] = "done"]
    /\ writes' = [writes EXCEPT ![a] = @ + 1]
    /\ UNCHANGED notEmissionVars
    /\ UNCHANGED <<refs, root, mode, output_dir, children, top, entrySt,
                   eaggSt, recSt, aggSt, aggVisited, aggCur, intoDirSt,
                   completion, observed>>

(***************************************************************************)
(* Aggregated, scoped emission.                                            *)
(***************************************************************************)

\* emit_with_completion: returns emit_assets_aggregated(asset, output_dir).
emit_with_completion ==
    /\ mode = "emit_with_completion"
    /\ entrySt = "scheduled"
    /\ entrySt' = "done"
    /\ eaggSt' = IF eaggSt = "none" THEN "scheduled" ELSE eaggSt
    /\ UNCHANGED notEmissionVars
    /\ UNCHANGED <<refs, root, mode, output_dir, children, top, recSt,
                   emitAssetSt, aggSt, aggVisited, aggCur, intoDirSt,
                   completion, writes, observed>>

\* emit_assets_aggregated: returns emit_aggregated_assets(aggregate(asset), output_dir).
emit_assets_aggregated ==
    /\ eaggSt = "scheduled"
    /\ eaggSt' = "done"
    /\ aggSt' = Call(aggSt, top)
    /\ UNCHANGED notEmissionVars
    /\ UNCHANGED <<refs, root, mode, output_dir, children, top, entrySt, recSt,
                   emitAssetSt, aggVisited, aggCur, intoDirSt, completion,
                   writes, observed>>

\* The completion of emit_aggregated_assets(n) can be read: the task is done
\* and, where it returned another task's completion, that task is done too.
Resolved(n) ==
    /\ aggSt[n] = "done"
    /\ IsLeaf(n) => intoDirSt[n] = "done"

\* emit_aggregated_assets on a leaf: returns emit_asset_into_dir(asset, output_dir).
emit_aggregated_assets_leaf(n) ==
    /\ aggSt[n] = "scheduled"
    /\ content(children, n).kind = "Asset"
    /\ aggSt' = [aggSt EXCEPT ![n] = "done"]
    /\ intoDirSt' = Call(intoDirSt, content(children, n).asset)
    /\ UNCHANGED notEmissionVars
    /\ UNCHANGED <<refs, root, mode, output_dir, children, top, entrySt,
                   eaggSt, recSt, emitAssetSt, aggVisited, aggCur, completion,
                   writes, observed>>

\* A loop that calls every child without awaiting any of them (the variant
\* the completion property must distinguish from the code's loop).
LoopTurn_NoAwait(n, visited) ==
    /\ aggSt' = [CallAll(aggSt, content(children, n).children) EXCEPT ![n] = "done"]
    /\ aggCur' = [aggCur EXCEPT ![n] = 0]

\* One turn of the loop over the children: the next child (in the set's
\* iteration order, which is arbitrary) is called and awaited; with no child
\* left the task returns CompletionVc::new().
LoopTurn(n, visited) ==
    IF visited = content(children, n).children
    THEN /\ aggSt' = [aggSt EXCEPT ![n] = "done"]
         /\ aggCur' = [aggCur EXCEPT ![n] = 0]
    ELSE \E c \in content(children, n).children \ visited :
            /\ aggSt' = [Call(aggSt, c) EXCEPT ![n] = "awaiting"]
            /\ aggCur' = [aggCur EXCEPT ![n] = c]

emit_aggregated_assets_children(n) ==
    /\ aggSt[n] = "scheduled"
    /\ content(children, n).kind = "Children"
    /\ LoopTurn(n, {})
    /\ UNCHANGED notEmissionVars
    /\ UNCHANGED <<refs, root, mode, output_dir, children, top, entrySt,
                   eaggSt, recSt, emitAssetSt, aggVisited, intoDirSt,
                   completion, writes, observed>>

\* The awaited child's completion arrives and the loop goes on.
emit_aggregated_assets_resume(n) ==
    /\ aggSt[n] = "awaiting"
    /\ Resolved(aggCur[n])
    /\ aggVisited' = [aggVisited EXCEPT ![n] = @ \cup {aggCur[n]}]
    /\ LoopTurn(n, aggVisited[n] \cup {aggCur[n]})
    /\ UNCHANGED notEmissionVars
    /\ UNCHANGED <<refs, root, mode, output_dir, children, top, entrySt,
                   eaggSt, recSt, emitAssetSt, intoDirSt, completion, writes,
                   observed>>

\* emit_asset_into_dir: the write if the path is inside output_dir, else
\* CompletionVc::new().
WriteAllowed_Always(a) == TRUE

WriteAllowed(a) == is_inside(AssetPath(a), output_dir)

emit_asset_into_dir(a) ==
    /\ intoDirSt[a] = "scheduled"
    /\ intoDirSt' = [intoDirSt EXCEPT ![a] = "done"]
    /\ IF WriteAllowed(a)
       THEN /\ writes' = [writes EXCEPT ![a] = @ + 1]
            /\ completion' = [completion EXCEPT ![a] = "write"]
       ELSE /\ writes' = writes
            /\ completion' = [completion EXCEPT ![a] = "new"]
    /\ UNCHANGED notEmissionVars
    /\ UNCHANGED <<refs, root, mode, output_dir, children, top, entrySt,
                   eaggSt, recSt, emitAssetSt, aggSt, aggVisited, aggCur,
                   observed>>

\* The result of the entry task is available to a caller awaiting it: emit
\* returns (), emit_with_completion a completion read through the chain of
\* returned tasks.
CompletionAvailable ==
    /\ entrySt = "done"
    /\ mode = "emit_with_completion" => eaggSt = "done" /\ Resolved(top)

caller_observes ==
    /\ ~observed
    /\ CompletionAvailable
    /\ observed' = TRUE
    /\ UNCHANGED notEmissionVars
    /\ UNCHANGED <<refs, root, mode, output_dir, children, top, entrySt,
                   eaggSt, recSt, emitAssetSt, aggSt, aggVisited, aggCur,
                   intoDirSt, completion, writes>>

NextRecursive ==
    \/ emit
    \/ \E a \in DOMAIN refs : emit_assets_recursive_start(a)
    \/ \E a \in DOMAIN refs : emit_assets_recursive_spawn(a)
    \/ \E a \in DOMAIN refs : emit_asset(a)

NextEmission ==
    \/ NextRecursive
    \/ caller_observes
    \/ emit_with_completion
    \/ emit_assets_aggregated
    \/ \E n \in NodeIds : emit_aggregated_assets_leaf(n)
    \/ \E n \in NodeIds : emit_aggregated_assets_children(n)
    \/ \E n \in NodeIds : emit_aggregated_assets_resume(n)
    \/ \E a \in DOMAIN refs : emit_asset_into_dir(a)

\* Every scheduled task is eventually run by the substrate.
SpecRecursive == InitRecursive /\ [][NextRecursive]_vars /\ WF_vars(NextRecursive)

SpecEmission == InitEmission /\ [][NextEmission]_vars

(***************************************************************************)
(* Back-reference analyzer.  A ReferencesList.referenced_by map is a       *)
(* function from its keys to sets of assets.  compute_back_references is a *)
(* memoized task per aggregation node: lists holds the result of every     *)
(* node computed so far, with the node's children (the records of the      *)
(* child nodes, none for a leaf) and its leaf assets.  A computed node may *)
(* be a child of any number of later nodes, so leaves and subtrees are     *)
(* shared between parents and nodes nest.                                  *)
(***************************************************************************)

RefAssets == 1..NumRefAssets

\* The assets an analyzed asset may reference.
RefTargets == 1..NumRefTargets

EmptyMap == [k \in {} |-> {}]

\* The Asset arm: referenced_by.insert(reference, {asset}) per reference.
LeafList(a, references) == [r \in references |-> {a}]

\* One list merged into the accumulator: per (key, values) of the list, the
\* values are inserted into the set the key has, or the key is inserted
\* with a clone of values.
MergeList_Overwrite(acc, l) ==
    [k \in DOMAIN acc \cup DOMAIN l |-> IF k \in DOMAIN l THEN l[k] ELSE acc[k]]

MergeList(acc, l) ==
    [k \in DOMAIN acc \cup DOMAIN l |->
        IF k \in DOMAIN acc
        THEN IF k \in DOMAIN l THEN acc[k] \cup l[k] ELSE acc[k]
        ELSE l[k]]

\* The Children arm: the children's lists merged in the children's order.
RECURSIVE MergeLists(_, _)
MergeLists(acc, ls) ==
    IF ls = <<>> THEN acc
    ELSE MergeLists(MergeList(acc, Head(ls)), Tail(ls))

\* The sequences without repetition of 1..2 members of S: the children of a
\* node in their iteration order.
ChildOrders(S) ==
    {<<x>> : x \in S} \cup {p \in S \X S : p[1] # p[2]}

InitBackRefs ==
    /\ assetRefs = [a \in RefAssets |-> {}]
    /\ lists = {}
    /\ TopUnused
    /\ EmissionUnused
    /\ ContextUnused

\* compute_back_references on the leaf of asset a, first call: the asset's
\* references are asked for.
compute_back_references_asset(a) ==
    /\ Cardinality(lists) < MaxLists
    /\ \A l \in lists : l.children = {} => l.leaves # {a}
    /\ \E references \in SUBSET RefTargets :
          /\ assetRefs' = [assetRefs EXCEPT ![a] = references]
          /\ lists' = lists \cup
                {[leaves |-> {a}, children |-> {},
                  referenced_by |-> LeafList(a, references)]}
    /\ UNCHANGED <<list, remaining, topVec, topResult>>
    /\ UNCHANGED notAnalyzerVars

\* compute_back_references on an internal node whose children are computed.
compute_back_references_children ==
    /\ Cardinality(lists) < MaxLists
    /\ \E cs \in ChildOrders(lists) :
          lists' = lists \cup
             {[leaves |-> UNION {cs[i].leaves : i \in DOMAIN cs},
               children |-> {cs[i] : i \in DOMAIN cs},
               referenced_by |->
                   MergeLists(EmptyMap, [i \in DOMAIN cs |-> cs[i].referenced_by])]}
    /\ UNCHANGED <<assetRefs, list, remaining, topVec, topResult>>
    /\ UNCHANGED notAnalyzerVars

NextBackRefs ==
    \/ \E a \in RefAssets : compute_back_references_asset(a)
    \/ compute_back_references_children

SpecBackRefs == InitBackRefs /\ [][NextBackRefs]_vars

(***************************************************************************)
(* top_references.                                                         *)
(***************************************************************************)

\* The maps handed in: keys 1..n; the sizes of the sets start at 1 and grow
\* by 0 or 1 from a key to the next (every pattern of ties and strict
\* orderings of the sizes occurs; the iteration order is arbitrary anyway).
SizeSteps(n) == [1..n -> {0, 1}]

RECURSIVE SizeOf(_, _)
SizeOf(steps, k) == IF k = 1 THEN 1 ELSE SizeOf(steps, k - 1) + steps[k]

InputLists ==
    UNION {{[k \in 1..n |-> {k + i : i \in 1..SizeOf(steps, k)}] :
               steps \in SizeSteps(n)} : n \in 0..MaxEntries}

InitTop ==
    /\ list \in InputLists
    /\ remaining = DOMAIN list
    /\ topVec = <<>>
    /\ topResult = <<>>
    /\ BackRefsUnused
    /\ EmissionUnused
    /\ ContextUnused

\* The sweep "for item in &mut top": from position i on, with current the
\* entry carried along; an item smaller than tuple is swapped with current.
\* Yields <<top, current>>.
RECURSIVE Sweep(_, _, _, _)
Sweep(tv, i, current, tuple) ==
    IF i > Len(tv) THEN <<tv, current>>
    ELSE IF Cardinality(list[tv[i]]) < Cardinality(list[tuple])
         THEN Sweep([tv EXCEPT ![i] = current], i + 1, tv[i], tuple)
         ELSE Sweep(tv, i + 1, current, tuple)

\* A sweep that stops after its first swap.
RECURSIVE SweepOnce(_, _, _, _)
SweepOnce(tv, i, current, tuple) ==
    IF i > Len(tv) THEN <<tv, current>>
    ELSE IF Cardinality(list[tv[i]]) < Cardinality(list[tuple])
         THEN <<[tv EXCEPT ![i] = current], tv[i]>>
         ELSE SweepOnce(tv, i + 1, current, tuple)

SweepTop_Once(tv, tuple) == SweepOnce(tv, 1, tuple, tuple)

SweepTop(tv, tuple) == Sweep(tv, 1, tuple, tuple)

\* One iteration of the outer loop, on the next entry of the map's
\* iteration order.
top_references_iterate(tuple) ==
    /\ topResult = <<>>
    /\ tuple \in remaining
    /\ remaining' = remaining \ {tuple}
    /\ LET swept == SweepTop(topVec, tuple)
       IN  topVec' = IF Len(swept[1]) < N
                     THEN Append(swept[1], swept[2])
                     ELSE swept[1]
    /\ UNCHANGED <<assetRefs, lists, list, topResult>>
    /\ UNCHANGED notAnalyzerVars

\* After the loop: top collected into the returned map.
top_references_collect ==
    /\ topResult = <<>>
    /\ remaining = {}
    /\ topResult' = <<[k \in {topVec[i] : i \in DOMAIN topVec} |-> list[k]]>>
    /\ UNCHANGED <<assetRefs, lists, list, remaining, topVec>>
    /\ UNCHANGED notAnalyzerVars

NextTop ==
    \/ \E tuple \in DOMAIN list : top_references_iterate(tuple)
    \/ top_references_collect

SpecTop == InitTop /\ [][NextTop]_vars

(***************************************************************************)
(* Assets, environments, rules.  An asset is a source file or a module     *)
(* wrapped around a source; the path of a wrapper is that of its source.   *)
(***************************************************************************)

Panic == [kind |-> "Panic"]

ModuleTypes ==
    {"Ecmascript", "Typescript", "TypescriptDeclaration", "Json", "Raw", "Css",
     "Static", "Custom"}

SourcePaths == {<<"src", "a.js">>, <<"src", "lib", "b.ts">>}

ContextPaths == {<<"src">>, <<"src", "lib">>}

Source(p) == [kind |-> "Source", path |-> p]

Sources == {Source(p) : p \in SourcePaths}

\* FileSystemPathVc::parent
Parent(p) == SubSeq(p, 1, Len(p) - 1)

\* Asset::path
RECURSIVE Path(_)
Path(a) ==
    CASE a.kind = "Source" -> a.path
      [] a.kind = "TransitionModule" -> Path(a.module)
      [] OTHER -> Path(a.source)

Environments == [typescript : BOOLEAN, via : {<<>>}]

\* EnvironmentVc::with_typescript, is_typescript_enabled
with_typescript(e) == [e EXCEPT !.typescript = TRUE]

is_typescript_enabled(e) == e.typescript

\* A transition and its three hooks; what a hook returns is a fresh value
\* built from the hook's transition and its argument.
Transition(name) == [kind |-> "Transition", name |-> name]

TransitionNames == {"server"}

TransitionsByName == [n \in TransitionNames |-> Transition(n)]

process_source(t, a) == [kind |-> "TransitionSource", transition |-> t.name, source |-> a]

process_environment(t, e) == [e EXCEPT !.via = Append(@, t.name)]

process_module(t, m) == [kind |-> "TransitionModule", transition |-> t.name, module |-> m]

\* ModuleRuleEffect and the map a rule's effects() yields, keyed by
\* ModuleRuleEffectKey.
ModuleTypeEffect(ty, transforms) ==
    [effect |-> "ModuleType", ty |-> ty, transforms |-> transforms]

CustomEffect == [effect |-> "Custom"]

EffectKeys == {"ModuleType", "Custom"}

EffectsMap(mt, custom) ==
    [k \in (IF mt = None THEN {} ELSE {"ModuleType"})
             \cup (IF custom THEN {"Custom"} ELSE {}) |->
        IF k = "ModuleType" THEN mt ELSE CustomEffect]

\* The rules whose ModuleType effect, if any, is one of mts.
RulesOver(mts) ==
    {[paths |-> ps, effects |-> EffectsMap(mt, cu)] :
        ps \in SUBSET SourcePaths, mt \in mts \cup {None}, cu \in BOOLEAN}

RECURSIVE RuleLists(_, _)
RuleLists(rs, k) ==
    IF k = 0 THEN {<<>>}
    ELSE LET prev == RuleLists(rs, k - 1)
         IN  prev \cup {Append(l, r) : l \in prev, r \in rs}

\* ModuleOptionsContext: the configured rules.
ModuleOptionsContext(rules) == [rules |-> rules]

\* ModuleOptionsVc::new(path, context).rules
ModuleOptionsRules(dir, moc) == moc.rules

(***************************************************************************)
(* ModuleAssetContext.                                                     *)
(***************************************************************************)

\* ModuleAssetContextVc::new
new(transitions, context_path, environment, module_options_context) ==
    [transitions |-> transitions,
     context_path |-> context_path,
     environment |-> environment,
     module_options_context |-> module_options_context,
     transition |-> None]

\* ModuleAssetContextVc::new_transition
new_transition(transitions, context_path, environment, module_options_context, t) ==
    [transitions |-> transitions,
     context_path |-> context_path,
     environment |-> environment,
     module_options_context |-> module_options_context,
     transition |-> t]

with_context_path_KeepsPath(self, path) ==
    new(self.transitions, self.context_path, self.environment,
        self.module_options_context)

with_context_path(self, path) ==
    new(self.transitions, path, self.environment, self.module_options_context)

with_environment(self, environment) ==
    new(self.transitions, self.context_path, environment,
        self.module_options_context)

with_transition(self, name) ==
    IF name \in DOMAIN self.transitions
    THEN new_transition(self.transitions, self.context_path, self.environment,
                        self.module_options_context, self.transitions[name])
    ELSE new(self.transitions, self.context_path, self.environment,
             self.module_options_context)

(***************************************************************************)
(* module: the rule engine and the factory.                                *)
(***************************************************************************)

\* rule.matches(&path_value)
RuleMatches(rule, path) == path \in rule.paths

\* effects.extend(rule.effects()): an entry of the rule replaces the entry
\* the map has under the same key.
Extend_KeepFirst(effs, ruleEffects) ==
    [k \in DOMAIN effs \cup DOMAIN ruleEffects |->
        IF k \in DOMAIN effs THEN effs[k] ELSE ruleEffects[k]]

Extend(effs, ruleEffects) ==
    [k \in DOMAIN effs \cup DOMAIN ruleEffects |->
        IF k \in DOMAIN ruleEffects THEN ruleEffects[k] ELSE effs[k]]

\* The loop over options.rules, from rule i on.
RECURSIVE MergeEffects(_, _, _, _)
MergeEffects(effs, rules, i, path) ==
    IF i > Len(rules) THEN effs
    ELSE MergeEffects(
            IF RuleMatches(rules[i], path) THEN Extend(effs, rules[i].effects) ELSE effs,
            rules, i + 1, path)

\* effects.get(ModuleType) ... unwrap_or_else(|| &ModuleType::Raw)
ResolvedModuleType(effs) ==
    IF "ModuleType" \in DOMAIN effs
    THEN [ty |-> effs["ModuleType"].ty, transforms |-> effs["ModuleType"].transforms]
    ELSE [ty |-> "Raw", transforms |-> <<>>]

\* The ModuleType::Raw arm.
RawModule_Wrapped(source) == [kind |-> "RawModule", source |-> source]

RawModule(source) == source

\* The match on the module type.
ModuleOfType(mt, source, transitions, environment, module_options_context) ==
    LET parent == Parent(Path(source))
        inner(env) == new(transitions, parent, env, module_options_context)
        ecmascript(env) ==
            [kind |-> "EcmascriptModule", source |-> source, context |-> inner(env),
             ty |-> mt.ty, transforms |-> mt.transforms, environment |-> environment]
    IN  CASE mt.ty = "Ecmascript" -> ecmascript(environment)
          [] mt.ty = "Typescript" -> ecmascript(with_typescript(environment))
          [] mt.ty = "TypescriptDeclaration" -> ecmascript(with_typescript(environment))
          [] mt.ty = "Json" -> [kind |-> "JsonModule", source |-> source]
          [] mt.ty = "Raw" -> RawModule(source)
          [] mt.ty = "Css" ->
                [kind |-> "CssModule", source |-> source, context |-> inner(environment)]
          [] mt.ty = "Static" ->
                [kind |-> "StaticModule", source |-> source, context |-> inner(environment)]
          [] mt.ty = "Custom" -> Panic

ModuleEffects(source, module_options_context) ==
    MergeEffects(<<>>, ModuleOptionsRules(Parent(Path(source)), module_options_context),
                 1, Path(source))

\* An asset whose path cannot be read: a failed module, or a hook's output
\* around one (the path of a wrapper is that of what it wraps).
RECURSIVE PathFails(_)
PathFails(a) ==
    CASE a.kind = "Panic" -> TRUE
      [] a.kind = "Source" -> FALSE
      [] a.kind = "TransitionModule" -> PathFails(a.module)
      [] OTHER -> PathFails(a.source)

\* module(): `path.await?` fails the task when the source's path cannot be
\* read; otherwise the rules are merged and the match builds the module.
module(source, transitions, environment, module_options_context) ==
    IF PathFails(source) THEN Panic ELSE
    ModuleOfType(ResolvedModuleType(ModuleEffects(source, module_options_context)),
                 source, transitions, environment, module_options_context)

\* What process hands to module(): the asset and the environment it has in
\* hand, with the context's transitions and module options.
ModuleCall_ContextEnvironment(self, a, environment) ==
    [source |-> a, transitions |-> self.transitions,
     environment |-> self.environment,
     module_options_context |-> self.module_options_context]

ModuleCall(self, a, environment) ==
    [source |-> a, transitions |-> self.transitions, environment |-> environment,
     module_options_context |-> self.module_options_context]

CallModule(call) ==
    module(call.source, call.transitions, call.environment, call.module_options_context)

\* ModuleAssetContext::process.  The handle m of the module() call is not
\* awaited: with an active transition the module hook is applied to it
\* whatever the factory's outcome, and process itself does not fail there.
process(self, a) ==
    IF self.transition # None
    THEN LET t == self.transition
             m == CallModule(ModuleCall(self, process_source(t, a),
                                        process_environment(t, self.environment)))
         IN  process_module(t, m)
    ELSE CallModule(ModuleCall(self, a, self.environment))

(***************************************************************************)
(* The rule engine on its own: module() run on a source under a            *)
(* configuration of up to MaxRules rules.                                  *)
(***************************************************************************)

RuleEffectsUsed ==
    {ModuleTypeEffect("Ecmascript", <<>>), ModuleTypeEffect("Ecmascript", <<"jsx">>),
     ModuleTypeEffect("Css", <<>>), ModuleTypeEffect("Raw", <<>>)}

Env0 == [typescript |-> FALSE, via |-> <<>>]

CallUnused ==
    /\ procSource = None /\ procEnv = None /\ result = None /\ result2 = None
    /\ resolveBase = None /\ resolveResults = <<>>

InitRules ==
    /\ op = "module"
    /\ arg \in Sources
    /\ \E rules \in RuleLists(RulesOver(RuleEffectsUsed), MaxRules) :
          ctx = new(TransitionsByName, Parent(Path(arg)), Env0,
                    ModuleOptionsContext(rules))
    /\ pc = "start"
    /\ moduleArgs = ModuleCall(ctx, arg, ctx.environment)
    /\ effects = <<>>
    /\ moduleOut = None
    /\ CallUnused
    /\ EmissionUnused
    /\ AnalyzerUnused

\* module() up to the end of the loop over the rules.
module_merge ==
    /\ op = "module"
    /\ pc = "start"
    /\ effects' = ModuleEffects(moduleArgs.source, moduleArgs.module_options_context)
    /\ pc' = "merged"
    /\ UNCHANGED <<ctx, op, arg, procSource, procEnv, moduleArgs, moduleOut,
                   result, result2, resolveBase, resolveResults>>
    /\ UNCHANGED <<emissionVars, analyzerVars>>

\* module() from the match on.
module_dispatch ==
    /\ op = "module"
    /\ pc = "merged"
    /\ moduleOut' = ModuleOfType(ResolvedModuleType(effects), moduleArgs.source,
                                 moduleArgs.transitions, moduleArgs.environment,
                                 moduleArgs.module_options_context)
    /\ pc' = "done"
    /\ UNCHANGED <<ctx, op, arg, effects, procSource, procEnv, moduleArgs,
                   result, result2, resolveBase, resolveResults>>
    /\ UNCHANGED <<emissionVars, analyzerVars>>

NextRules == module_merge \/ module_dispatch

SpecRules == InitRules /\ [][NextRules]_vars

(***************************************************************************)
(* process, and process once more on its result.                           *)
(***************************************************************************)

AllModuleTypeEffects == {ModuleTypeEffect(ty, <<>>) : ty \in ModuleTypes}

\* The contexts: with or without an active transition, TypeScript enabled
\* or not, a configuration of at most one rule.
ContextsOver(ruleLists) ==
    {new(TransitionsByName, p, e, ModuleOptionsContext(rules)) :
        p \in ContextPaths, e \in Environments, rules \in ruleLists}
    \cup
    {new_transition(TransitionsByName, p, e, ModuleOptionsContext(rules),
                    TransitionsByName[n]) :
        p \in ContextPaths, e \in Environments, rules \in ruleLists,
        n \in TransitionNames}

InitProcess ==
    /\ op = "process"
    /\ arg \in Sources
    /\ ctx \in {c \in ContextsOver(RuleLists(RulesOver(AllModuleTypeEffects), 1)) :
                  c.context_path = <<"src">>}
    /\ pc = "start"
    /\ effects = <<>>
    /\ procSource = None /\ procEnv = None /\ moduleArgs = None
    /\ moduleOut = None /\ result = None /\ result2 = None
    /\ resolveBase = None /\ resolveResults = <<>>
    /\ EmissionUnused
    /\ AnalyzerUnused

\* process with an active transition: the two hooks before module().
process_hooks ==
    /\ op = "process" /\ pc = "start"
    /\ ctx.transition # None
    /\ procSource' = process_source(ctx.transition, arg)
    /\ procEnv' = process_environment(ctx.transition, ctx.environment)
    /\ pc' = "module"
    /\ UNCHANGED <<ctx, op, arg, effects, moduleArgs, moduleOut, result, result2,
                   resolveBase, resolveResults>>
    /\ UNCHANGED <<emissionVars, analyzerVars>>

\* process without an active transition: no hook.
process_no_transition ==
    /\ op = "process" /\ pc = "start"
    /\ ctx.transition = None
    /\ procSource' = arg
    /\ procEnv' = ctx.environment
    /\ pc' = "module"
    /\ UNCHANGED <<ctx, op, arg, effects, moduleArgs, moduleOut, result, result2,
                   resolveBase, resolveResults>>
    /\ UNCHANGED <<emissionVars, analyzerVars>>

\* The call of module().
process_module_call ==
    /\ op = "process" /\ pc = "module"
    /\ moduleArgs' = ModuleCall(ctx, procSource, procEnv)
    /\ moduleOut' = CallModule(ModuleCall(ctx, procSource, procEnv))
    /\ pc' = "return"
    /\ UNCHANGED <<ctx, op, arg, effects, procSource, procEnv, result, result2,
                   resolveBase, resolveResults>>
    /\ UNCHANGED <<emissionVars, analyzerVars>>

\* The value returned: transition.process_module(m), or m.
process_return ==
    /\ op = "process" /\ pc = "return"
    /\ result' = IF ctx.transition # None
                 THEN process_module(ctx.transition, moduleOut)
                 ELSE moduleOut
    /\ pc' = "done"
    /\ UNCHANGED <<ctx, op, arg, effects, procSource, procEnv, moduleArgs,
                   moduleOut, result2, resolveBase, resolveResults>>
    /\ UNCHANGED <<emissionVars, analyzerVars>>

\* The returned asset processed through a context equal to ctx.
process_again ==
    /\ op = "process" /\ pc = "done"
    /\ \E c2 \in {ctx} : result2' = process(c2, result)
    /\ pc' = "again"
    /\ UNCHANGED <<ctx, op, arg, effects, procSource, procEnv, moduleArgs,
                   moduleOut, result, resolveBase, resolveResults>>
    /\ UNCHANGED <<emissionVars, analyzerVars>>

NextProcess ==
    \/ process_hooks
    \/ process_no_transition
    \/ process_module_call
    \/ process_return
    \/ process_again

SpecProcess == InitProcess /\ [][NextProcess]_vars

(***************************************************************************)
(* with_context_path, with_environment, with_transition.                   *)
(***************************************************************************)

SmallRuleLists ==
    {<<>>, <<[paths |-> SourcePaths,
              effects |-> EffectsMap(ModuleTypeEffect("Typescript", <<>>), FALSE)]>>}

DerivedEnvironments == [typescript : BOOLEAN, via : {<<>>, <<"server">>}]

InitContext ==
    /\ ctx \in ContextsOver(SmallRuleLists)
    /\ \/ op = "with_context_path" /\ arg \in ContextPaths \cup {<<>>}
       \/ op = "with_environment" /\ arg \in DerivedEnvironments
       \/ op = "with_transition" /\ arg \in TransitionNames \cup {"client"}
    /\ pc = "start"
    /\ effects = <<>>
    /\ procSource = None /\ procEnv = None /\ moduleArgs = None
    /\ moduleOut = None /\ result = None /\ result2 = None
    /\ resolveBase = None /\ resolveResults = <<>>
    /\ EmissionUnused
    /\ AnalyzerUnused

with_context_path_call ==
    /\ op = "with_context_path" /\ pc = "start"
    /\ result' = with_context_path(ctx, arg)
    /\ pc' = "done"
    /\ UNCHANGED <<ctx, op, arg, effects, procSource, procEnv, moduleArgs,
                   moduleOut, result2, resolveBase, resolveResults>>
    /\ UNCHANGED <<emissionVars, analyzerVars>>

with_environment_call ==
    /\ op = "with_environment" /\ pc = "start"
    /\ result' = with_environment(ctx, arg)
    /\ pc' = "done"
    /\ UNCHANGED <<ctx, op, arg, effects, procSource, procEnv, moduleArgs,
                   moduleOut, result2, resolveBase, resolveResults>>
    /\ UNCHANGED <<emissionVars, analyzerVars>>

with_transition_call ==
    /\ op = "with_transition" /\ pc = "start"
    /\ result' = with_transition(ctx, arg)
    /\ pc' = "done"
    /\ UNCHANGED <<ctx, op, arg, effects, procSource, procEnv, moduleArgs,
                   moduleOut, result2, resolveBase, resolveResults>>
    /\ UNCHANGED <<emissionVars, analyzerVars>>

NextContext ==
    \/ with_context_path_call
    \/ with_environment_call
    \/ with_transition_call

SpecContext == InitContext /\ [][NextContext]_vars

(***************************************************************************)
(* resolve_asset.                                                          *)
(***************************************************************************)

Requests == {"./a", "./b"}

OtherReference == [kind |-> "OtherReference"]

\* What turbopack_core::resolve::resolve returns: resolved assets and the
\* references attached to the result.
ResolveResult(assets, references) ==
    [kind |-> "ResolveResult", assets |-> assets, references |-> references]

BaseResults ==
    {ResolveResult(as, rs) :
        as \in {<<>>, <<Source(<<"src", "a.js">>)>>,
                <<Source(<<"src", "a.js">>), Source(<<"src", "lib", "b.ts">>)>>},
        rs \in {<<>>, <<OtherReference>>}}

\* ResolveResult::map over the assets, with process as the asset mapper: a
\* new result; a failing process fails the whole.
MapProcess(self, base) ==
    LET mapped == [i \in DOMAIN base.assets |-> process(self, base.assets[i])]
    IN  IF \E i \in DOMAIN mapped : mapped[i] = Panic THEN Panic
        ELSE ResolveResult(mapped, base.references)

\* ResolveResult::add_reference
add_reference(res, reference) ==
    [res EXCEPT !.references = Append(@, reference)]

TypescriptTypesAssetReference(context, request) ==
    [kind |-> "TypescriptTypesAssetReference", context |-> context,
     request |-> request]

AttachesTypes_Always(self) == TRUE

AttachesTypes(self) == is_typescript_enabled(self.environment)

\* ModuleAssetContext::resolve_asset on the result base of resolve().
resolve_asset(self, context_path, request, base) ==
    LET mapped == MapProcess(self, base)
    IN  IF mapped = Panic THEN Panic
        ELSE IF AttachesTypes(self)
             THEN add_reference(mapped,
                     TypescriptTypesAssetReference(
                         new(self.transitions, context_path, self.environment,
                             self.module_options_context),
                         request))
             ELSE mapped

InitResolve ==
    /\ op = "resolve_asset"
    /\ ctx \in {c \in ContextsOver(RuleLists(RulesOver({ModuleTypeEffect("Typescript", <<>>),
                                                         ModuleTypeEffect("Custom", <<>>)}), 1)) :
                  /\ c.context_path = <<"src">>
                  /\ \A i \in DOMAIN c.module_options_context.rules :
                        /\ c.module_options_context.rules[i].paths \in {{<<"src", "a.js">>}, SourcePaths}
                        /\ "Custom" \notin DOMAIN c.module_options_context.rules[i].effects}
    /\ arg \in [context_path : {<<"src", "lib">>}, request : Requests,
                resolve_options : {"resolve_options"}]
    /\ resolveBase \in BaseResults
    /\ resolveResults = <<>>
    /\ pc = "start"
    /\ effects = <<>>
    /\ procSource = None /\ procEnv = None /\ moduleArgs = None
    /\ moduleOut = None /\ result = None /\ result2 = None
    /\ EmissionUnused
    /\ AnalyzerUnused

\* One execution of resolve_asset with the same context and arguments.
resolve_asset_call ==
    /\ op = "resolve_asset"
    /\ Len(resolveResults) < MaxResolves
    /\ resolveResults' =
          Append(resolveResults,
                 resolve_asset(ctx, arg.context_path, arg.request, resolveBase))
    /\ UNCHANGED <<ctx, op, arg, pc, effects, procSource, procEnv, moduleArgs,
                   moduleOut, result, result2, resolveBase>>
    /\ UNCHANGED <<emissionVars, analyzerVars>>

NextResolve == resolve_asset_call

SpecResolve == InitResolve /\ [][NextResolve]_vars

(***************************************************************************)
(* Properties of the emission pipeline.                                    *)
(***************************************************************************)

\* No task of the operation is scheduled or suspended: nothing is left that
\* could issue a write.
NoPendingTask ==
    /\ entrySt = "done"
    /\ eaggSt \in {"none", "done"}
    /\ \A a \in DOMAIN refs :
          /\ recSt[a] \in {"none", "done"}
          /\ emitAssetSt[a] \in {"none", "done"}
          /\ intoDirSt[a] \in {"none", "done"}
    /\ \A n \in NodeIds : aggSt[n] \in {"none", "done"}

\* The assets whose write the operation is to issue.
WritesOwed ==
    IF mode = "emit" THEN Reachable(refs, root)
    ELSE {a \in LeavesOf(children, top) : is_inside(AssetPath(a), output_dir)}

\* C1: emit(root) terminates on every finite reference graph (cycles,
\* self-references and shared assets included): eventually no
\* emit_assets_recursive or emit_asset task is pending; at that point every
\* asset reachable from root has been written exactly once and no other
\* asset has been written; and at no time is an asset written twice.
C1_EmitTerminatesWritingReachableOnce ==
    /\ <>NoPendingTask
    /\ [](NoPendingTask =>
            \A a \in DOMAIN refs :
                writes[a] = IF a \in Reachable(refs, root) THEN 1 ELSE 0)
    /\ [](\A a \in DOMAIN refs : writes[a] <= 1)

\* Emission from a cycle 1 <-> 2 whose two members both reference asset 3 has
\* terminated: 3 is written once, the unreachable asset 4 is not.
C1_Witness ==
    /\ mode = "emit"
    /\ NoPendingTask
    /\ refs[1] = {2, 3}
    /\ refs[2] = {1, 3}
    /\ writes[1] = 1
    /\ writes[3] = 1
    /\ writes[4] = 0

\* C2 as stated: for emit and for emit_with_completion, once the caller has
\* observed the result every write of the operation has been issued and no
\* task is left that could issue one.
C2_Original_BothStrategiesCompleteAfterWrites ==
    observed => NoPendingTask /\ \A a \in WritesOwed : writes[a] >= 1

\* C2 amended: once the caller has observed the completion of
\* emit_with_completion(root, output_dir), every write of the operation has
\* been issued and no task is left that could issue one; the result of
\* emit(root) guarantees only that emit_assets_recursive(root) has been called.
C2_CompletionAfterWrites ==
    observed =>
        IF mode = "emit_with_completion"
        THEN NoPendingTask /\ \A a \in WritesOwed : writes[a] >= 1
        ELSE entrySt = "done" /\ recSt[root] # "none"

\* The caller has observed the completion of a scoped emission over a tree
\* with an internal node, after the write of asset 1.
C2_Witness ==
    /\ observed
    /\ mode = "emit_with_completion"
    /\ ~IsLeaf(top)
    /\ 1 \in WritesOwed
    /\ writes[1] = 1

\* C3: emit_with_completion(root, output_dir) never writes an asset whose
\* path is outside output_dir; when its completion is available every leaf
\* inside output_dir has been written (once), and every leaf outside it has
\* run to the no-op completion CompletionVc::new() without a write.
C3_ScopedEmissionWritesExactlyInside ==
    mode = "emit_with_completion" =>
        /\ \A a \in DOMAIN refs :
              writes[a] > 0 => is_inside(AssetPath(a), output_dir)
        /\ CompletionAvailable =>
              \A a \in LeavesOf(children, top) :
                  IF is_inside(AssetPath(a), output_dir)
                  THEN writes[a] = 1 /\ completion[a] = "write"
                  ELSE /\ writes[a] = 0
                       /\ intoDirSt[a] = "done"
                       /\ completion[a] = "new"

\* Scoped emission into /out over the leaves /out/1.js and /tmp/2.js has
\* completed: /out/1.js is written, /tmp/2.js is not.
C3_Witness ==
    /\ mode = "emit_with_completion"
    /\ output_dir = <<"out">>
    /\ CompletionAvailable
    /\ LeavesOf(children, top) = {1, 2}
    /\ writes[1] = 1
    /\ writes[2] = 0
    /\ completion[2] = "new"

(***************************************************************************)
(* Properties of the back-reference analyzer.                              *)
(***************************************************************************)

\* The map the claim describes for a node with leaf assets L.
BackReferencesOf(L) ==
    [b \in UNION {assetRefs[a] : a \in L} |-> {a \in L : b \in assetRefs[a]}]

\* C8: the map compute_back_references returns for a node with leaf assets L
\* sends each asset B to exactly the leaves that reference B directly and has
\* no key for an asset no leaf references, whatever the shape of the tree
\* under the node (its depth, leaves and subtrees shared between parents)
\* and the order in which the children's maps are merged.
C8_BackReferencesAreReferrers ==
    \A l \in lists : l.referenced_by = BackReferencesOf(l.leaves)

\* Asset 3 references 1 and 2 and asset 2 references 1.  The node n1 is over
\* the leaves 2 and 3, n2 is over n1 and the leaf 3 again (a leaf shared
\* between two parents, a node under a node), n3 is over n1 and n2 (a
\* subtree shared between two parents), and n3 maps 1 to {2, 3} and 2 to {3}.
C8_Witness ==
    /\ assetRefs[2] = {1}
    /\ assetRefs[3] = {1, 2}
    /\ \E n1, n2, n3 \in lists :
          /\ {c.leaves : c \in n1.children} = {{2}, {3}}
          /\ \A c \in n1.children : c.children = {}
          /\ \E leaf \in n1.children : leaf.leaves = {3} /\ n2.children = {n1, leaf}
          /\ n3.children = {n1, n2}
          /\ n3.leaves = {2, 3}
          /\ DOMAIN n3.referenced_by = {1, 2}
          /\ n3.referenced_by[1] = {2, 3}
          /\ n3.referenced_by[2] = {3}

TopDone == topResult # <<>>

Min(a, b) == IF a < b THEN a ELSE b

\* C7: top_references returns exactly min(5, n) entries of the n handed in,
\* each with its reference set unchanged, and no omitted entry has a
\* strictly larger reference set than a returned one; when the sizes are
\* pairwise distinct the result is exactly the 5 entries with the largest
\* sizes.  The iteration order of the map is arbitrary.
C7_TopReferencesAreLargest ==
    TopDone =>
        LET kept == DOMAIN topResult[1]
            size(k) == Cardinality(list[k])
        IN  /\ kept \subseteq DOMAIN list
            /\ Cardinality(kept) = Min(N, Cardinality(DOMAIN list))
            /\ \A k \in kept : topResult[1][k] = list[k]
            /\ \A o \in DOMAIN list \ kept : \A k \in kept : size(o) <= size(k)
            /\ (\A j, k \in DOMAIN list : j # k => size(j) # size(k)) =>
                  kept = {k \in DOMAIN list :
                             Cardinality({j \in DOMAIN list : size(j) > size(k)}) < N}

\* Six entries with pairwise distinct sizes were handed in and the smallest
\* one, key 1, was left out.
C7_Witness ==
    /\ TopDone
    /\ Cardinality(DOMAIN list) = N + 1
    /\ \A j, k \in DOMAIN list : j # k => Cardinality(list[j]) # Cardinality(list[k])
    /\ DOMAIN topResult[1] = DOMAIN list \ {1}

(***************************************************************************)
(* Properties of the rule engine, the factory and the asset context.       *)
(***************************************************************************)

\* The rules, in configuration order, that match the path and set the key.
Setters(rules, path, key) ==
    {i \in DOMAIN rules : path \in rules[i].paths /\ key \in DOMAIN rules[i].effects}

LastOf(S) == CHOOSE i \in S : \A j \in S : j <= i

\* The module type the configuration gives the path: that of the last
\* matching rule that sets ModuleType, Raw without one.
TypeByRules(rules, path) ==
    IF Setters(rules, path, "ModuleType") = {} THEN "Raw"
    ELSE rules[LastOf(Setters(rules, path, "ModuleType"))].effects["ModuleType"].ty

KindOfType(ty) ==
    CASE ty \in {"Ecmascript", "Typescript", "TypescriptDeclaration"} -> "EcmascriptModule"
      [] ty = "Json" -> "JsonModule"
      [] ty = "Css" -> "CssModule"
      [] ty = "Static" -> "StaticModule"
      [] ty = "Custom" -> "Panic"
      [] OTHER -> "Source"

\* C5: the effects map module() builds holds, per effect key, the effect of
\* the last rule in configuration order that matches the path and sets the
\* key, and no entry for a key no matching rule sets; the module built is of
\* the ModuleType chosen this way, and is the source itself (Raw) when no
\* matching rule sets ModuleType.
C5_LastMatchingRuleWinsPerKey ==
    op = "module" /\ pc \in {"merged", "done"} =>
        LET rules == ctx.module_options_context.rules
            path == Path(arg)
        IN  /\ DOMAIN effects = {k \in EffectKeys : Setters(rules, path, k) # {}}
            /\ \A k \in DOMAIN effects :
                  effects[k] = rules[LastOf(Setters(rules, path, k))].effects[k]
            /\ pc = "done" =>
                  /\ moduleOut.kind = KindOfType(TypeByRules(rules, path))
                  /\ TypeByRules(rules, path) = "Raw" => moduleOut = arg
                  /\ moduleOut.kind = "EcmascriptModule" =>
                        /\ moduleOut.ty = TypeByRules(rules, path)
                        /\ moduleOut.transforms =
                              rules[LastOf(Setters(rules, path, "ModuleType"))]
                                  .effects["ModuleType"].transforms

\* Two rules match the path and set ModuleType, Ecmascript first and Css
\* second, and the module built is the Css module.
C5_Witness ==
    /\ op = "module" /\ pc = "done"
    /\ LET rules == ctx.module_options_context.rules
       IN  /\ Len(rules) = 2
           /\ Setters(rules, Path(arg), "ModuleType") = {1, 2}
           /\ Setters(rules, Path(arg), "Custom") = {1}
           /\ rules[1].effects["ModuleType"].ty = "Ecmascript"
           /\ rules[2].effects["ModuleType"].ty = "Css"
    /\ moduleOut.kind = "CssModule"
    /\ DOMAIN effects = {"ModuleType", "Custom"}

\* The context fields other than the named one are those of ctx.
SameExcept(derived, field) ==
    \A f \in {"transitions", "context_path", "environment",
              "module_options_context", "transition"} \ {field} :
        derived[f] = ctx[f]

\* C4 as stated: with_context_path and with_environment replace one field
\* and copy the four others, the active transition included.
C4_Original_AllOtherFieldsCopied ==
    pc = "done" =>
        /\ op = "with_context_path" =>
              result.context_path = arg /\ SameExcept(result, "context_path")
        /\ op = "with_environment" =>
              result.environment = arg /\ SameExcept(result, "environment")

\* C4 amended: with_context_path(p) returns a context with context path p,
\* with_environment(e) one with environment e; the transitions table, the
\* module-options config and the other of the two fields are those of c; the
\* result has no active transition, whether c has one or not; c itself is
\* unchanged.
C4_DerivedContextDropsTransition ==
    /\ [](pc = "done" =>
            /\ op = "with_context_path" =>
                  /\ result.context_path = arg
                  /\ result.environment = ctx.environment
            /\ op = "with_environment" =>
                  /\ result.environment = arg
                  /\ result.context_path = ctx.context_path
            /\ op \in {"with_context_path", "with_environment"} =>
                  /\ result.transitions = ctx.transitions
                  /\ result.module_options_context = ctx.module_options_context
                  /\ result.transition = None)
    /\ [][ctx' = ctx]_vars

\* with_context_path has returned on a context with an active transition and
\* a path other than the context's.
C4_Witness ==
    /\ op = "with_context_path" /\ pc = "done"
    /\ ctx.transition = Transition("server")
    /\ arg # ctx.context_path
    /\ result.context_path = arg
    /\ result.transition = None

\* C9: with an active transition T, module() receives T.process_source(asset)
\* and T.process_environment(environment), with the context's transitions and
\* module options, not before both hooks have run, and process returns
\* T.process_module of what module() returned; without an active transition
\* module() receives the asset and the context's environment and process
\* returns what module() returned.  Both hold whether module() succeeds or
\* fails: the module hook is applied to the handle of a failed module too.
C9_ProcessAppliesHooksAroundModule ==
    op = "process" =>
        /\ pc \in {"start", "module"} => moduleArgs = None /\ result = None
        /\ pc \in {"return", "done", "again"} =>
              /\ moduleArgs.transitions = ctx.transitions
              /\ moduleArgs.module_options_context = ctx.module_options_context
              /\ moduleOut = module(moduleArgs.source, moduleArgs.transitions,
                                    moduleArgs.environment,
                                    moduleArgs.module_options_context)
              /\ IF ctx.transition # None
                 THEN /\ moduleArgs.source = process_source(ctx.transition, arg)
                      /\ moduleArgs.environment =
                            process_environment(ctx.transition, ctx.environment)
                      /\ moduleArgs.source # arg
                      /\ moduleArgs.environment # ctx.environment
                 ELSE /\ moduleArgs.source = arg
                      /\ moduleArgs.environment = ctx.environment
        /\ pc \in {"done", "again"} =>
              IF ctx.transition # None
              THEN result = process_module(ctx.transition, moduleOut) /\ result # moduleOut
              ELSE result = moduleOut

\* process has returned on a context with the active transition "server"
\* whose rules make the hooked source a Typescript module.
C9_Witness ==
    /\ op = "process" /\ pc = "done"
    /\ ctx.transition = Transition("server")
    /\ moduleOut.kind = "EcmascriptModule"
    /\ moduleOut.ty = "Typescript"
    /\ moduleOut.source.kind = "TransitionSource"
    /\ moduleOut.environment.via = <<"server">>
    /\ result.kind = "TransitionModule"

\* C6 as stated: processing the processed asset once more through an equal
\* context gives the processed asset.
C6_Original_ProcessIsIdempotent ==
    op = "process" /\ pc = "again" => result2 = result

\* C6 amended: through equal contexts without an active transition,
\* processing the processed asset once more gives the processed asset when
\* the rules resolve the asset's path to Raw (both are the asset itself);
\* when they resolve it to Custom both calls fail; for every other resolved
\* module type the processed module keeps the path of its source, resolves
\* to the same type and is wrapped once more.  With an active transition
\* (and a type other than Custom) the hooks are applied a second time: the
\* second module is built on the source hook's output over the first result.
C6_ProcessTwiceRawOnly ==
    op = "process" /\ pc = "again" =>
        LET ty == TypeByRules(ctx.module_options_context.rules, Path(arg))
        IN  IF ctx.transition = None
            THEN IF ty = "Raw"
                 THEN result = arg /\ result2 = result
                 ELSE IF ty = "Custom"
                 THEN result = Panic /\ result2 = Panic
                 ELSE /\ result2 # result
                      /\ result2.source = result
                      /\ result2.kind = result.kind
            ELSE ty # "Custom" =>
                 /\ result2 # result
                 /\ result2.kind = "TransitionModule"
                 /\ (IF ty = "Raw" THEN result2.module ELSE result2.module.source)
                        = process_source(ctx.transition, result)

\* A source that resolves to Raw has been processed twice without an active
\* transition, under a rule that matches another path only.
C6_Witness ==
    /\ op = "process" /\ pc = "again"
    /\ ctx.transition = None
    /\ Len(ctx.module_options_context.rules) = 1
    /\ ctx.module_options_context.rules[1].paths = SourcePaths \ {Path(arg)}
    /\ result2 = arg

\* The synthetic types references of a result for a request.
TypesReferences(res, request) ==
    {i \in DOMAIN res.references :
        /\ res.references[i].kind = "TypescriptTypesAssetReference"
        /\ res.references[i].request = request}

\* C10: every result resolve_asset returns carries, after the references of
\* the underlying resolve result, exactly one synthetic TypeScript-types
\* reference for the request when the context's environment has TypeScript
\* enabled, and none when it has not; this holds of every one of the
\* repeated calls, and the underlying result never gains one.
C10_OneTypesReferencePerResolve ==
    op = "resolve_asset" =>
        /\ TypesReferences(resolveBase, arg.request) = {}
        /\ \A i \in DOMAIN resolveResults :
              LET res == resolveResults[i]
              IN  res # Panic =>
                    IF is_typescript_enabled(ctx.environment)
                    THEN /\ Cardinality(TypesReferences(res, arg.request)) = 1
                         /\ Len(res.references) = Len(resolveBase.references) + 1
                         /\ SubSeq(res.references, 1, Len(resolveBase.references))
                               = resolveBase.references
                    ELSE /\ TypesReferences(res, arg.request) = {}
                         /\ res.references = resolveBase.references

\* Two calls have returned on a TypeScript-enabled context, each result with
\* the underlying reference followed by one types reference.
C10_Witness ==
    /\ op = "resolve_asset"
    /\ is_typescript_enabled(ctx.environment)
    /\ Len(resolveResults) = 2
    /\ Len(resolveBase.references) = 1
    /\ \A i \in {1, 2} :
          /\ resolveResults[i] # Panic
          /\ Len(resolveResults[i].references) = 2
          /\ TypesReferences(resolveResults[i], arg.request) = {2}

====
